---- MODULE Spec2Model ----
(***************************************************************************)
(* Model of GraphAPIClient.get_objects_for_sync                            *)
(* (src/azure_dbr_scim_sync/graph.py): the traversal that resolves group   *)
(* names, fetches each group's direct members, registers every member in   *)
(* the per-kind mapping of the GraphSyncObject and links it to its group.  *)
(*                                                                         *)
(* Python objects live in `heap`; an address is an index of heap, 0 is     *)
(* "no object" (a missing dictionary key, an unbound local).  A dictionary *)
(* keyed by identifier is a function Ids -> address.                       *)
(***************************************************************************)
EXTENDS Integers, Sequences, FiniteSets, TLC

\* ---------------------------------------------------------------- bounds
MaxNames == 2        \* longest group_names list
MaxRecords == 3      \* member records the transport returns during one run

\* ------------------------------------------------------- input alphabets
Ids == {"i1", "i2"}
Names == {"A", "B"}
ABSENT == "<absent>"     \* the key is not in the dictionary
NONE == "<None>"         \* the key is there and its value is None

T_USER == "#microsoft.graph.user"
T_SP == "#microsoft.graph.servicePrincipal"
T_GROUP == "#microsoft.graph.group"
T_DEVICE == "#microsoft.graph.device"

\* Raw member records as the members endpoint returns them: the selected
\* properties a directory object of that type carries; a property may be
\* missing or null.
UserRecords ==
    {rec \in [odata_type : {T_USER}, id : Ids \cup {ABSENT},
              displayName : Names \cup {ABSENT},
              mail : {ABSENT, NONE, "m"}, mailNickname : {ABSENT, "k"},
              appId : {ABSENT}, accountEnabled : {ABSENT}] :
        rec.mailNickname = "k" => rec.mail # "m"}

ServicePrincipalRecords ==
    [odata_type : {T_SP}, id : Ids \cup {ABSENT}, displayName : {ABSENT, "A"},
     mail : {ABSENT}, mailNickname : {ABSENT},
     appId : {ABSENT, "app"}, accountEnabled : {ABSENT, "false"}]

GroupRecords ==
    [odata_type : {T_GROUP}, id : Ids \cup {ABSENT}, displayName : {ABSENT, "A"},
     mail : {ABSENT}, mailNickname : {ABSENT},
     appId : {ABSENT}, accountEnabled : {ABSENT}]

OtherRecords ==
    [odata_type : {T_DEVICE, NONE}, id : Ids, displayName : {"A"},
     mail : {ABSENT}, mailNickname : {ABSENT},
     appId : {ABSENT}, accountEnabled : {ABSENT}]

MemberRecords == UserRecords \cup ServicePrincipalRecords \cup GroupRecords \cup OtherRecords

\* The name at position i of the requested list.
NameAt(i) == IF i % 2 = 1 THEN "A" ELSE "B"

NoRecord ==
    [odata_type |-> ABSENT, id |-> ABSENT, displayName |-> ABSENT, mail |-> ABSENT,
     mailNickname |-> ABSENT, appId |-> ABSENT, accountEnabled |-> ABSENT]

\* The descriptor the name lookup returns for a group: $select=id,displayName,
\* filtered on displayName eq name.
GroupInfo(i, name) == [NoRecord EXCEPT !.id = i, !.displayName = name]

\* The responses of the name lookup: zero, one or two groups carry the name.
LookupResponses(name) ==
    {<<>>} \cup {<<GroupInfo(i, name)>> : i \in Ids}
           \cup {<<GroupInfo(i, name), GroupInfo(j, name)>> : i \in Ids, j \in Ids}

\* ------------------------------------------------------------------ state
VARIABLES
    group_names,   \* the argument of get_objects_for_sync
    idx,           \* number of names the outer loop has finished
    pc,            \* "lookup", "fetch", "members", "done" (returned), "raised"
    exc,           \* the exception that left get_objects_for_sync, or "none"
    group_info,    \* result of get_group_by_name
    group,         \* address of the current group object
    remaining,     \* records of group_members the inner loop has not read
    records_read,  \* member records the transport has returned so far
    r,             \* the local r: address of the last registered entity, 0 unbound
    sync_data,     \* the GraphSyncObject
    heap,          \* the validated entity objects, by address
    fetches        \* group ids whose members were requested, in order

vars == <<group_names, idx, pc, exc, group_info, group, remaining,
          records_read, r, sync_data, heap, fetches>>

\* ------------------------------------------------------------ entity models
EmptyMembers == [i \in Ids |-> 0]

Keys(map) == {i \in Ids : map[i] # 0}

Present(v) == v # ABSENT /\ v # NONE

\* AliasChoices('mail', 'mailNickname'): the first alias that is a key of the
\* record supplies the value.
mail_alias(d) == IF d.mail # ABSENT THEN d.mail ELSE d.mailNickname

\* accountEnabled with default=True
active_field(d) == IF d.accountEnabled = ABSENT THEN TRUE ELSE d.accountEnabled = "true"

\* Variant: displayName is not required.
GraphBase_valid_lax(d) == Present(d.id)

GraphBase_valid(d) == Present(d.id) /\ Present(d.displayName)

GraphUser_valid(d) ==
    GraphBase_valid(d) /\ Present(mail_alias(d)) /\ d.accountEnabled # NONE

GraphServicePrincipal_valid(d) ==
    GraphBase_valid(d) /\ Present(d.appId) /\ d.accountEnabled # NONE

GraphGroup_valid(d) == GraphBase_valid(d)

GraphUser(d) ==
    [kind |-> "GraphUser", id |-> d.id, display_name |-> d.displayName,
     mail |-> mail_alias(d), application_id |-> ABSENT,
     active |-> active_field(d), members |-> EmptyMembers]

GraphServicePrincipal(d) ==
    [kind |-> "GraphServicePrincipal", id |-> d.id, display_name |-> d.displayName,
     mail |-> ABSENT, application_id |-> d.appId,
     active |-> active_field(d), members |-> EmptyMembers]

GraphGroup(d) ==
    [kind |-> "GraphGroup", id |-> d.id, display_name |-> d.displayName,
     mail |-> ABSENT, application_id |-> ABSENT,
     active |-> TRUE, members |-> EmptyMembers]

GraphSyncObject ==
    [users |-> EmptyMembers, service_principals |-> EmptyMembers,
     groups |-> EmptyMembers, errors |-> <<>>]

\* ------------------------------------------------------------ registration
\* The outcome of a call: the exception it raised ("none" when it returned),
\* the GraphSyncObject and heap after it, and the address it returned.
Raised(e, sd, hp) == [exc |-> e, sync_data |-> sd, heap |-> hp, ret |-> 0]

Returned(sd, hp, a) == [exc |-> "none", sync_data |-> sd, heap |-> hp, ret |-> a]

\* Variant: no `if id not in sync_data.users`, every call validates.
register_user_revalidate(d, sd, hp) ==
    IF d.id = ABSENT THEN Raised("KeyError", sd, hp)
    ELSE IF GraphUser_valid(d)
         THEN Returned([sd EXCEPT !.users[d.id] = Len(hp) + 1],
                       Append(hp, GraphUser(d)), Len(hp) + 1)
         ELSE Raised("ValidationError", sd, hp)

\* Variant: the validated user is returned but not stored in sync_data.users.
register_user_unstored(d, sd, hp) ==
    IF d.id = ABSENT THEN Raised("KeyError", sd, hp)
    ELSE IF sd.users[d.id] = 0
         THEN IF GraphUser_valid(d)
              THEN Returned(sd, Append(hp, GraphUser(d)), Len(hp) + 1)
              ELSE Raised("ValidationError", sd, hp)
         ELSE Returned(sd, hp, sd.users[d.id])

register_user(d, sd, hp) ==
    IF d.id = ABSENT THEN Raised("KeyError", sd, hp)
    ELSE IF sd.users[d.id] = 0
         THEN IF GraphUser_valid(d)
              THEN Returned([sd EXCEPT !.users[d.id] = Len(hp) + 1],
                            Append(hp, GraphUser(d)), Len(hp) + 1)
              ELSE Raised("ValidationError", sd, hp)
         ELSE Returned(sd, hp, sd.users[d.id])

\* Variant: the presence test looks at sync_data.users.
register_service_principal_shared(d, sd, hp) ==
    IF d.id = ABSENT THEN Raised("KeyError", sd, hp)
    ELSE IF sd.users[d.id] = 0
         THEN IF GraphServicePrincipal_valid(d)
              THEN Returned([sd EXCEPT !.service_principals[d.id] = Len(hp) + 1],
                            Append(hp, GraphServicePrincipal(d)), Len(hp) + 1)
              ELSE Raised("ValidationError", sd, hp)
         ELSE Returned(sd, hp, sd.users[d.id])

register_service_principal(d, sd, hp) ==
    IF d.id = ABSENT THEN Raised("KeyError", sd, hp)
    ELSE IF sd.service_principals[d.id] = 0
         THEN IF GraphServicePrincipal_valid(d)
              THEN Returned([sd EXCEPT !.service_principals[d.id] = Len(hp) + 1],
                            Append(hp, GraphServicePrincipal(d)), Len(hp) + 1)
              ELSE Raised("ValidationError", sd, hp)
         ELSE Returned(sd, hp, sd.service_principals[d.id])

register_group(d, sd, hp) ==
    IF d.id = ABSENT THEN Raised("KeyError", sd, hp)
    ELSE IF sd.groups[d.id] = 0
         THEN IF GraphGroup_valid(d)
              THEN Returned([sd EXCEPT !.groups[d.id] = Len(hp) + 1],
                            Append(hp, GraphGroup(d)), Len(hp) + 1)
              ELSE Raised("ValidationError", sd, hp)
         ELSE Returned(sd, hp, sd.groups[d.id])

\* ------------------------------------------------------------- inner loop
\* m = {k: v for k, v in m.items() if v is not None}
strip_none(rec) == [k \in DOMAIN rec |-> IF rec[k] = NONE THEN ABSENT ELSE rec[k]]

\* The three `if m['@odata.type'] == ...` statements: at most one matches; when
\* none does, r keeps the value it had.
dispatch(d, sd, hp, old_r) ==
    IF d.odata_type = ABSENT THEN Raised("KeyError", sd, hp)
    ELSE IF d.odata_type = T_USER THEN register_user(d, sd, hp)
    ELSE IF d.odata_type = T_SP THEN register_service_principal(d, sd, hp)
    ELSE IF d.odata_type = T_GROUP THEN register_group(d, sd, hp)
    ELSE Returned(sd, hp, old_r)

\* isinstance(r, Exception)
is_exception(hp, a) == hp[a].kind = "Exception"

\* Variant: the entry is keyed by the id of the group.
add_member_group_key(hp, g, a) == [hp EXCEPT ![g].members[hp[g].id] = a]

\* Variant: the link is made in the member, towards the group.
add_member_reversed(hp, g, a) == [hp EXCEPT ![a].members[hp[g].id] = g]

\* group.members[r.id] = r
add_member(hp, g, a) == [hp EXCEPT ![g].members[hp[a].id] = a]

\* sync_data.errors.append((m, r))
append_error(sd, d, a) == [sd EXCEPT !.errors = Append(@, <<d, a>>)]

\* ---------------------------------------------------------------- actions
Init ==
    /\ group_names \in {[i \in 1..n |-> NameAt(i)] : n \in 0..MaxNames}
    /\ idx = 0
    /\ pc = "lookup"
    /\ exc = "none"
    /\ group_info = NoRecord
    /\ group = 0
    /\ remaining = 0
    /\ records_read = 0
    /\ r = 0
    /\ sync_data = GraphSyncObject
    /\ heap = <<>>
    /\ fetches = <<>>

\* Variant: `if data:`, the first of several groups is taken.
get_group_by_name_first(data) == IF Len(data) >= 1 THEN <<data[1]>> ELSE <<>>

\* get_group_by_name: one response with exactly one group is the group.
get_group_by_name(data) == IF Len(data) = 1 THEN <<data[1]>> ELSE <<>>

\* res.raise_for_status() of the name lookup raises.
LookupFails ==
    /\ pc = "lookup"
    /\ idx < Len(group_names)
    /\ pc' = "raised"
    /\ exc' = "HTTPError"
    /\ UNCHANGED <<group_names, idx, group_info, group, remaining,
                   records_read, r, sync_data, heap, fetches>>

\* group_info = self.get_group_by_name(group_name); if not group_info: continue
\* data being the groups the lookup response lists.
GetGroupByName(data) ==
    /\ pc = "lookup"
    /\ idx < Len(group_names)
    /\ \A k \in 1..Len(data) : data[k].displayName = group_names[idx + 1]
    /\ LET found == get_group_by_name(data) IN
          IF found = <<>>
          THEN /\ idx' = idx + 1
               /\ pc' = "lookup"
               /\ UNCHANGED group_info
          ELSE /\ group_info' = found[1]
               /\ pc' = "fetch"
               /\ UNCHANGED idx
    /\ UNCHANGED <<group_names, exc, group, remaining, records_read, r,
                   sync_data, heap, fetches>>

\* res.raise_for_status() of the member fetch raises.
FetchFails ==
    /\ pc = "fetch"
    /\ pc' = "raised"
    /\ exc' = "HTTPError"
    /\ fetches' = Append(fetches, group_info.id)
    /\ UNCHANGED <<group_names, idx, group_info, group, remaining,
                   records_read, r, sync_data, heap>>

\* group_members = self.get_group_members(...); _register_group(group_info);
\* group = sync_data.groups[group_info['id']]
GetGroupMembers ==
    /\ pc = "fetch"
    /\ fetches' = Append(fetches, group_info.id)
    /\ \E n \in 0..(MaxRecords - records_read) :
          /\ remaining' = n
          /\ records_read' = records_read + n
    /\ LET res == register_group(group_info, sync_data, heap) IN
          IF res.exc # "none"
          THEN /\ pc' = "raised"
               /\ exc' = res.exc
               /\ UNCHANGED <<group, sync_data, heap>>
          ELSE /\ pc' = "members"
               /\ sync_data' = res.sync_data
               /\ heap' = res.heap
               /\ group' = res.sync_data.groups[group_info.id]
               /\ UNCHANGED exc
    /\ UNCHANGED <<group_names, idx, group_info, r>>

\* One iteration of `for m in group_members`, rec being the next record of
\* the response.
ProcessMember(rec) ==
    /\ pc = "members"
    /\ remaining > 0
    /\ remaining' = remaining - 1
    /\ LET m == strip_none(rec)
           res == dispatch(m, sync_data, heap, r)
       IN IF res.exc # "none"
          THEN /\ pc' = "raised"
               /\ exc' = res.exc
               /\ UNCHANGED <<r, sync_data, heap>>
          ELSE IF res.ret = 0
          THEN /\ pc' = "raised"
               /\ exc' = "UnboundLocalError"
               /\ UNCHANGED <<r, sync_data, heap>>
          ELSE /\ r' = res.ret
               /\ UNCHANGED <<pc, exc>>
               /\ IF is_exception(res.heap, res.ret)
                  THEN /\ sync_data' = append_error(res.sync_data, m, res.ret)
                       /\ heap' = res.heap
                  ELSE /\ sync_data' = res.sync_data
                       /\ heap' = add_member(res.heap, group, res.ret)
    /\ UNCHANGED <<group_names, idx, group_info, group, records_read, fetches>>

\* The inner loop is exhausted: the outer loop takes the next name.
NextGroup ==
    /\ pc = "members"
    /\ remaining = 0
    /\ idx' = idx + 1
    /\ pc' = "lookup"
    /\ UNCHANGED <<group_names, exc, group_info, group, remaining,
                   records_read, r, sync_data, heap, fetches>>

\* The outer loop is exhausted: log the summary and return sync_data.
Return ==
    /\ pc = "lookup"
    /\ idx = Len(group_names)
    /\ pc' = "done"
    /\ UNCHANGED <<group_names, idx, exc, group_info, group, remaining,
                   records_read, r, sync_data, heap, fetches>>

Next ==
    \/ LookupFails
    \/ \E data \in UNION {LookupResponses(name) : name \in Names} : GetGroupByName(data)
    \/ FetchFails
    \/ GetGroupMembers
    \/ \E rec \in MemberRecords : ProcessMember(rec)
    \/ NextGroup
    \/ Return

Spec == Init /\ [][Next]_vars

\* Execution is single-threaded and synchronous and every transport call
\* returns or raises: a step that is possible is eventually taken.
FairSpec == Spec /\ WF_vars(Next)

\* ------------------------------------------------------------ properties
Addrs == 1..Len(heap)

GroupAddrs == {a \in Addrs : heap[a].kind = "GraphGroup"}

Range(seq) == {seq[k] : k \in 1..Len(seq)}

KnownTypes == {T_USER, T_SP, T_GROUP}

AllLookupResponses == UNION {LookupResponses(name) : name \in Names}

\* The mapping of sd and the entity class a type tag dispatches to.
MapOf(sd, t) ==
    IF t = T_USER THEN sd.users
    ELSE IF t = T_SP THEN sd.service_principals
    ELSE sd.groups

KindOf(t) ==
    IF t = T_USER THEN "GraphUser"
    ELSE IF t = T_SP THEN "GraphServicePrincipal"
    ELSE "GraphGroup"

ValidFor(t, d) ==
    IF t = T_USER THEN GraphUser_valid(d)
    ELSE IF t = T_SP THEN GraphServicePrincipal_valid(d)
    ELSE GraphGroup_valid(d)

\* The member records as the loop body sees them (None values removed); a
\* step on a record is the step on its stripped form.
StrippedRecords == {strip_none(rec) : rec \in MemberRecords}

\* Records that reach a registration routine and carry an id.
KeyedRecords == {d \in StrippedRecords : d.odata_type \in KnownTypes /\ d.id # ABSENT}

ValidUserRecords == {d \in KeyedRecords : d.odata_type = T_USER /\ GraphUser_valid(d)}

ValidServicePrincipalRecords ==
    {d \in KeyedRecords : d.odata_type = T_SP /\ GraphServicePrincipal_valid(d)}

InvalidRecords == {d \in KeyedRecords : ~ValidFor(d.odata_type, d)}

\* Every field of the entity but its members mapping is as it was.
SameEntities ==
    \A a \in Addrs : heap'[a] = [heap[a] EXCEPT !.members = heap'[a].members]

\* C1: a member record that fails validation never makes the run raise: the
\* error is recorded in sync_data.errors and the loop goes on.
C1_ValidationErrorIsolated ==
    exc = "ValidationError" => (pc # "raised" /\ Len(sync_data.errors) >= 1)

\* C2: an identifier is validated at most once per kind; a registration of an
\* identifier that is already in its kind's mapping returns the cached entity,
\* validates nothing and changes no mapping, so the member linked to the
\* current group is the object every other group holds.
C2_AtMostOnce ==
    \A a, b \in Addrs :
        (heap[a].kind = heap[b].kind /\ heap[a].id = heap[b].id) => a = b

C2_CachedMember ==
    pc = "members" => \A d \in KeyedRecords :
        (/\ MapOf(sync_data, d.odata_type)[d.id] # 0
         /\ ProcessMember(d))
        => /\ pc' = "members"
           /\ Len(heap') = Len(heap)
           /\ SameEntities
           /\ sync_data' = sync_data
           /\ r' = MapOf(sync_data, d.odata_type)[d.id]
           /\ heap'[group].members[d.id] = r'

C2_CachedGroupInfo ==
    (GetGroupMembers /\ sync_data.groups[group_info.id] # 0)
    => /\ heap' = heap
       /\ sync_data' = sync_data
       /\ group' = sync_data.groups[group_info.id]

C2_IdempotentRegistration ==
    [] C2_AtMostOnce /\ [][C2_CachedMember /\ C2_CachedGroupInfo]_vars

C2_Witness ==
    \E i \in Ids : \E g1, g2 \in GroupAddrs :
        /\ g1 # g2
        /\ sync_data.users[i] # 0
        /\ heap[g1].members[i] = sync_data.users[i]
        /\ heap[g2].members[i] = sync_data.users[i]
        /\ pc = "done"

\* C3: a name whose lookup lists no group or several groups changes nothing in
\* sync_data, registers nothing, requests no member list, and the loop goes
\* to the next name.
C3_SoftSkip ==
    [][\A data \in AllLookupResponses :
          (GetGroupByName(data) /\ Len(data) # 1)
          => /\ sync_data' = sync_data
             /\ heap' = heap
             /\ fetches' = fetches
             /\ exc' = exc
             /\ pc' = "lookup"
             /\ idx' = idx + 1]_vars

C3_Witness ==
    /\ pc = "done"
    /\ idx = 2
    /\ Len(fetches) = 1
    /\ Keys(sync_data.groups) # {}
    /\ sync_data.errors = <<>>

\* C4: every identifier in a group's members mapping is a key of users,
\* service_principals or groups.
C4_GroupLinkage ==
    \A g \in GroupAddrs : \A i \in Keys(heap[g].members) :
        i \in Keys(sync_data.users) \cup Keys(sync_data.service_principals)
              \cup Keys(sync_data.groups)

C4_Witness ==
    /\ pc = "done"
    /\ \E g \in GroupAddrs : \E i \in Keys(heap[g].members) :
          /\ heap[heap[g].members[i]].kind = "GraphUser"
          /\ i \notin Keys(sync_data.groups)

\* C5: a run raises only on a transport failure; a run without one returns.
C5_OnlyTransportFailureAborts ==
    pc = "raised" => exc = "HTTPError"

\* C6: a valid user record whose id is not in users is registered in users
\* whatever service_principals holds, and the other way round; the other
\* kind's mapping is left alone.
C6_UserStep ==
    pc = "members" => \A d \in ValidUserRecords :
        (/\ sync_data.users[d.id] = 0
         /\ ProcessMember(d))
        => /\ pc' = "members"
           /\ sync_data'.users[d.id] = Len(heap) + 1
           /\ Len(heap') = Len(heap) + 1
           /\ heap'[Len(heap) + 1].kind = "GraphUser"
           /\ sync_data'.service_principals = sync_data.service_principals

C6_ServicePrincipalStep ==
    pc = "members" => \A d \in ValidServicePrincipalRecords :
        (/\ sync_data.service_principals[d.id] = 0
         /\ ProcessMember(d))
        => /\ pc' = "members"
           /\ sync_data'.service_principals[d.id] = Len(heap) + 1
           /\ Len(heap') = Len(heap) + 1
           /\ heap'[Len(heap) + 1].kind = "GraphServicePrincipal"
           /\ sync_data'.users = sync_data.users

C6_NoCrossContamination ==
    [][C6_UserStep /\ C6_ServicePrincipalStep]_vars

C6_Witness ==
    \E i \in Ids :
        /\ sync_data.users[i] # 0
        /\ sync_data.service_principals[i] # 0
        /\ heap[sync_data.users[i]].kind = "GraphUser"
        /\ heap[sync_data.service_principals[i]].kind = "GraphServicePrincipal"

\* C7: the mappings hold validated entities only, and a record that fails
\* validation leaves every mapping as it was (nothing is cached for it).
Validated(a) ==
    /\ heap[a].id \in Ids
    /\ heap[a].display_name \in Names
    /\ heap[a].kind = "GraphUser" => Present(heap[a].mail)
    /\ heap[a].kind = "GraphServicePrincipal" => Present(heap[a].application_id)

C7_OnlyValidated ==
    /\ \A i \in Keys(sync_data.users) :
          heap[sync_data.users[i]].kind = "GraphUser" /\ Validated(sync_data.users[i])
    /\ \A i \in Keys(sync_data.service_principals) :
          /\ heap[sync_data.service_principals[i]].kind = "GraphServicePrincipal"
          /\ Validated(sync_data.service_principals[i])
    /\ \A i \in Keys(sync_data.groups) :
          heap[sync_data.groups[i]].kind = "GraphGroup" /\ Validated(sync_data.groups[i])
    /\ \A g \in Addrs : \A i \in Keys(heap[g].members) : Validated(heap[g].members[i])

C7_FailureNotCached ==
    pc = "members" => \A d \in InvalidRecords :
        (/\ MapOf(sync_data, d.odata_type)[d.id] = 0
         /\ ProcessMember(d))
        => /\ sync_data' = sync_data
           /\ heap' = heap
           /\ exc' = "ValidationError"

C7_FailedRecordNowhere ==
    [] C7_OnlyValidated /\ [][C7_FailureNotCached]_vars

C7_Witness ==
    /\ exc = "ValidationError"
    /\ Keys(sync_data.users) # {}
    /\ \E i \in Ids : MapOf(sync_data, T_SP)[i] = 0

\* C8: member lists are requested for resolved names of the input only, at
\* most one per position; a group nobody requested keeps empty members; every
\* run ends.
C8_NoExpansion ==
    /\ Len(fetches) <= idx + (IF pc \in {"members", "raised"} THEN 1 ELSE 0)
    /\ \A g \in GroupAddrs :
          heap[g].id \notin Range(fetches) => heap[g].members = EmptyMembers

C8_NoRecursionTerminates ==
    [] C8_NoExpansion /\ <>(pc \in {"done", "raised"})

C8_Witness ==
    /\ pc = "done"
    /\ \E g, h \in GroupAddrs :
          /\ heap[h].id \notin Range(fetches)
          /\ heap[g].members[heap[h].id] = h

\* C9: every key of users, service_principals, groups and of a members
\* mapping is the id of the entity it maps to.
C9_KeyIsId ==
    /\ \A i \in Keys(sync_data.users) : heap[sync_data.users[i]].id = i
    /\ \A i \in Keys(sync_data.service_principals) :
          heap[sync_data.service_principals[i]].id = i
    /\ \A i \in Keys(sync_data.groups) : heap[sync_data.groups[i]].id = i
    /\ \A g \in Addrs : \A i \in Keys(heap[g].members) :
          heap[heap[g].members[i]].id = i

C9_Witness ==
    /\ pc = "done"
    /\ \E g \in GroupAddrs : \E i \in Keys(heap[g].members) : heap[g].id # i
    /\ Keys(sync_data.service_principals) # {}

\* C10: a step of the inner loop changes the members of the current group
\* only, and only by the entity registered from the record of that step; a
\* record of any other type changes no members mapping.
C10_StepAddsOwnRecordOnly ==
    pc = "members" => \A d \in StrippedRecords :
        ProcessMember(d)
        => \A g \in Addrs : \A i \in Ids :
              heap'[g].members[i] # heap[g].members[i]
              => /\ g = group
                 /\ d.odata_type \in KnownTypes
                 /\ i = d.id
                 /\ heap'[heap'[g].members[i]].kind = KindOf(d.odata_type)

C10_MembershipSound == [][C10_StepAddsOwnRecordOnly]_vars

TypeOK ==
    /\ idx \in 0..Len(group_names)
    /\ pc \in {"lookup", "fetch", "members", "done", "raised"}
    /\ remaining \in 0..MaxRecords
    /\ records_read \in 0..MaxRecords
    /\ r \in 0..Len(heap)
    /\ group \in 0..Len(heap)
====
